---------------------------- MODULE Spec2Model ----------------------------
(***************************************************************************)
(* The device store of the MQTT dashboard (src/src/App.js, lines 28-101):  *)
(* the mqtt_message handler, the offline-detection interval, the ordering  *)
(* of the device ids and the summary counts.                               *)
(*                                                                         *)
(* JavaScript values are written as records of one shape per kind of       *)
(* value, so that any two of them can be compared:                         *)
(*   a number or undefined      [kind, n]                                  *)
(*   a string or undefined      [kind, s]                                  *)
(*   a Date                     [valid, ms]                                *)
(*   an element of fields       [kind, ph, temp, cod, ss, timestamp]       *)
(* The devices object is a sequence of [id, name, history, lastSeen,       *)
(* status] in the insertion order of its keys, which is the order          *)
(* Object.keys and Object.entries enumerate.                               *)
(***************************************************************************)
EXTENDS Integers, Sequences, FiniteSets

VARIABLES
    devices,    \* the React state `devices` (App.js line 38)
    now,        \* the wall clock read by new Date() and Date.now(), in ms
    mounted,    \* the component is mounted: socket connected, interval set
    last,       \* what the last callback did (history variable)
    applied,    \* per device key, the sample of every event handed to
                \* setDevices so far, in dispatch order (history variable)
    queue,      \* the updaters handed to setDevices and not yet run by a render
    variants    \* the store and the mounted flag of the two other variants of
                \* App (App.js lines 313-369, unnamed/part_000 lines 28-92)

vars == <<devices, now, mounted, last, applied, queue, variants>>

-----------------------------------------------------------------------------
(* Bounds of the model *)

\* applied events per behaviour of Spec
MaxEvents == 3
\* applied events per behaviour of SpecLong (more than the history keeps)
MaxLongEvents == 25
\* applied events per behaviour of SpecOrder
MaxOrderEvents == 4
\* applied events per behaviour of SpecTimer
MaxTimerEvents == 2
\* applied events per behaviour of SpecSweep
MaxSweepEvents == 2
\* dispatched events per behaviour of SpecQueue
MaxQueueEvents == 3
\* applied events per behaviour of SpecVariants
MaxVariantEvents == 2
\* updaters waiting for one render in SpecQueue
MaxQueue == 3
\* clock steps of 2500 ms per behaviour of SpecTimer
TimerSteps == 17

(* Program constants *)

\* entries kept by slice(-20), App.js line 56
HistoryLimit == 20
\* offline threshold in ms, App.js line 80
OfflineAfter == 30000

\* an interval of twice the length
SweepEverySlow == 2 * 5000

\* period of the interval in ms, App.js line 85
SweepEvery == 5000

-----------------------------------------------------------------------------
(* JavaScript values *)

Undefined == [kind |-> "undefined", n |-> 0]
NaN == [kind |-> "NaN", n |-> 0]
Num(x) == [kind |-> "number", n |-> x]
\* a string that is not a number, such as "abc", where a number is expected
NonNumeric == [kind |-> "string", n |-> 0]

UndefinedS == [kind |-> "undefined", s |-> ""]
Str(x) == [kind |-> "string", s |-> x]

InvalidDate == [valid |-> FALSE, ms |-> 0]

\* an element of fields: an object with the four metrics and a timestamp
Reading(ph, temp, cod, ss, ts) ==
    [kind |-> "object", ph |-> ph, temp |-> temp, cod |-> cod, ss |-> ss,
     timestamp |-> ts]
\* the literal {} of line 51: every property read gives undefined
EmptyObject == Reading(Undefined, Undefined, Undefined, Undefined, Undefined)
\* a null element of fields
NullElement ==
    [kind |-> "null", ph |-> Undefined, temp |-> Undefined, cod |-> Undefined,
     ss |-> Undefined, timestamp |-> Undefined]

\* fields: an array of elements, or something that is no array (absent)
ArrayOf(items) == [isArray |-> TRUE, items |-> items]
NoFields == [isArray |-> FALSE, items |-> <<>>]

\* v * 1000 of line 55
Times1000(v) == IF v.kind = "number" THEN Num(v.n * 1000) ELSE NaN

\* new Date(v) of line 55
NewDate(v) == IF v.kind = "number" THEN [valid |-> TRUE, ms |-> v.n] ELSE InvalidDate

\* the property key a value is converted to in prev[id] and { [id]: ... }
ToPropertyKey(v) == IF v.kind = "undefined" THEN "undefined" ELSE v.s


-----------------------------------------------------------------------------
(* Inbound messages: the text handed to JSON.parse, by what it parses to *)

\* json: "invalid" (no JSON text), "null" (the text null), "object"
\* payload: the kind of the parsed object's payload property
Message(json, payload, id, name, fields) ==
    [json |-> json, payload |-> payload, id |-> id, name |-> name, fields |-> fields]

InvalidJson == Message("invalid", "undefined", UndefinedS, UndefinedS, NoFields)
JsonNull == Message("null", "undefined", UndefinedS, UndefinedS, NoFields)
\* {} : valid JSON without a payload
NoPayload == Message("object", "undefined", UndefinedS, UndefinedS, NoFields)
\* {"payload": null}
NullPayload == Message("object", "null", UndefinedS, UndefinedS, NoFields)
\* {"payload": {id, name, fields}}, each of the three possibly absent
WithPayload(id, name, fields) == Message("object", "object", id, name, fields)

\* the sample of the scenario: {ph: 7.1, temp: 22, timestamp: 1000} (ph in tenths)
R1 == Reading(Num(71), Num(22), Undefined, Undefined, Num(1000))
\* a later arrival with an older timestamp
R2 == Reading(Num(68), Num(21), Num(40), Num(3), Num(400))
\* a sample whose timestamp is no number
R4 == Reading(Num(70), Undefined, Undefined, Undefined, NonNumeric)

-----------------------------------------------------------------------------
(* The message handler, App.js lines 43-67 *)

\* lines 45-49: JSON.parse(message).payload inside try/catch. A SyntaxError
\* (invalid text) and the TypeError of reading .payload of null are caught.
ParseThrows(message) == message.json \in {"invalid", "null"}

\* const { id, name, fields } = payload || {} : nothing is thrown
DestructureDefaults(message) == FALSE

\* line 50: const { id, name, fields } = payload throws a TypeError, outside
\* the try, when payload is undefined or null
DestructureThrows(message) == message.payload \in {"undefined", "null"}

\* fields[0] in place of fields[fields.length - 1]
LatestFirst(fields) ==
    IF fields.isArray /\ Len(fields.items) > 0
    THEN fields.items[1]
    ELSE EmptyObject

\* line 51: the last element of a non-empty array, else {}
Latest(fields) ==
    IF fields.isArray /\ Len(fields.items) > 0
    THEN fields.items[Len(fields.items)]
    ELSE EmptyObject

\* line 55 reads latest.timestamp: a TypeError when latest is null
UpdaterThrows(latest) == latest.kind = "null"

\* index of key in the devices object, 0 when it is not a key
IndexOf(prev, key) ==
    IF \E i \in 1..Len(prev) : prev[i].id = key
    THEN CHOOSE i \in 1..Len(prev) : prev[i].id = key
    ELSE 0

\* line 54: prev[id]?.history || []
PrevHistory(prev, key) ==
    IF IndexOf(prev, key) = 0 THEN <<>> ELSE prev[IndexOf(prev, key)].history

\* slice(-20) left out: the history is never cut
SliceNone(s) == s

\* slice(0, 20) in place of slice(-20): the first 20 entries are kept
SliceFirst(s) ==
    IF Len(s) <= HistoryLimit THEN s ELSE SubSeq(s, 1, HistoryLimit)

\* line 56: slice(-20)
SliceLast(s) ==
    IF Len(s) <= HistoryLimit THEN s ELSE SubSeq(s, Len(s) - HistoryLimit + 1, Len(s))

\* lines 57-65: { ...prev, [id]: dev } keeps an existing key in its place and
\* adds a new key at the end
Spread(prev, key, dev) ==
    IF IndexOf(prev, key) = 0
    THEN Append(prev, dev)
    ELSE [prev EXCEPT ![IndexOf(prev, key)] = dev]

\* the updater with the status of an existing device carried over
EventUpdaterKeepsStatus(prev, id, name, latest, t) ==
    LET key == ToPropertyKey(id)
        history == SliceLast(Append(PrevHistory(prev, key),
                       [time |-> NewDate(Times1000(latest.timestamp)), data |-> latest]))
    IN  Spread(prev, key,
               [id |-> key, name |-> name, history |-> history, lastSeen |-> t,
                status |-> IF IndexOf(prev, key) = 0 THEN "online"
                           ELSE prev[IndexOf(prev, key)].status])

\* the updater with the status misspelt
EventUpdaterMisspelt(prev, id, name, latest, t) ==
    LET key == ToPropertyKey(id)
        history == SliceLast(Append(PrevHistory(prev, key),
                       [time |-> NewDate(Times1000(latest.timestamp)), data |-> latest]))
    IN  Spread(prev, key,
               [id |-> key, name |-> name, history |-> history, lastSeen |-> t,
                status |-> "Online"])

\* the event updater with every device of the store turned online
EventUpdaterRevivesAll(prev, id, name, latest, t) ==
    LET key == ToPropertyKey(id)
        prevHistory == PrevHistory(prev, key)
        entry == [time |-> NewDate(Times1000(latest.timestamp)), data |-> latest]
        history == SliceLast(Append(prevHistory, entry))
    IN  Spread([i \in 1..Len(prev) |-> [prev[i] EXCEPT !.status = "online"]], key,
               [id |-> key, name |-> name, history |-> history,
                lastSeen |-> t, status |-> "online"])

\* the event updater with the name of a known device kept as it was
EventUpdaterKeepsName(prev, id, name, latest, t) ==
    LET key == ToPropertyKey(id)
        prevHistory == PrevHistory(prev, key)
        entry == [time |-> NewDate(Times1000(latest.timestamp)), data |-> latest]
        history == SliceLast(Append(prevHistory, entry))
    IN  Spread(prev, key,
               [id |-> key,
                name |-> IF IndexOf(prev, key) = 0 THEN name
                         ELSE prev[IndexOf(prev, key)].name,
                history |-> history, lastSeen |-> t, status |-> "online"])

\* lines 53-66: the updater handed to setDevices, run at clock t
EventUpdater(prev, id, name, latest, t) ==
    LET key == ToPropertyKey(id)
        prevHistory == PrevHistory(prev, key)
        entry == [time |-> NewDate(Times1000(latest.timestamp)), data |-> latest]
        history == SliceLast(Append(prevHistory, entry))
    IN  Spread(prev, key,
               [id |-> key, name |-> name, history |-> history,
                lastSeen |-> t, status |-> "online"])

-----------------------------------------------------------------------------
(* Offline detection, App.js lines 72-87 *)

\* >= in place of > : exactly 30000 ms counts as offline
SweepStatusInclusive(t, lastSeen) ==
    IF t - lastSeen >= OfflineAfter THEN "offline" ELSE "online"

\* line 80
SweepStatus(t, lastSeen) == IF t - lastSeen > OfflineAfter THEN "offline" ELSE "online"

\* the sweep with lastSeen set to the time of the sweep
SweepUpdaterTouches(prev, t) ==
    [i \in 1..Len(prev) |->
        [prev[i] EXCEPT !.status = SweepStatus(t, prev[i].lastSeen), !.lastSeen = t]]

\* the sweep with the offline devices removed from the store
SweepUpdaterDrops(prev, t) ==
    SelectSeq([i \in 1..Len(prev) |->
                  [prev[i] EXCEPT !.status = SweepStatus(t, prev[i].lastSeen)]],
              LAMBDA d : d.status = "online")

\* lines 74-84: the updater handed to setDevices by the interval, run at clock t
SweepUpdater(prev, t) ==
    [i \in 1..Len(prev) |-> [prev[i] EXCEPT !.status = SweepStatus(t, prev[i].lastSeen)]]

\* an updater handed to setDevices: the handler's (lines 53-66), closed over
\* id, name and latest, or the interval's (lines 74-84); `at` is the clock at
\* the call of setDevices
EventUpdate(id, name, latest, at) ==
    [kind |-> "event", id |-> id, name |-> name, latest |-> latest, at |-> at]

SweepUpdate(at) ==
    [kind |-> "sweep", id |-> UndefinedS, name |-> UndefinedS,
     latest |-> EmptyObject, at |-> at]

\* the updaters written on the `devices` of the render that set up the
\* effects (the empty object) in place of the argument prev
RunUpdaterStale(prev, u, t) ==
    IF u.kind = "sweep"
    THEN SweepUpdater(<<>>, t)
    ELSE EventUpdater(<<>>, u.id, u.name, u.latest, t)

\* lines 53 and 74: React calls the updater u with the state the previous
\* updater returned; the updater reads the clock when it runs
RunUpdater(prev, u, t) ==
    IF u.kind = "sweep"
    THEN SweepUpdater(prev, t)
    ELSE EventUpdater(prev, u.id, u.name, u.latest, t)

\* the updaters of the queue run one after the other, in dispatch order
RECURSIVE RunQueue(_, _, _)
RunQueue(base, q, t) ==
    IF q = <<>> THEN base
    ELSE RunQueue(RunUpdater(base, Head(q), t), Tail(q), t)

\* App.js lines 331-343: the event updater of the second variant; the time
\* of the entry is new Date(), the time of the receipt (line 333)
EventUpdaterSecond(old, id, name, latest, t) ==
    LET key == ToPropertyKey(id)
        prev == PrevHistory(old, key)
        history == SliceLast(Append(prev, [time |-> NewDate(Num(t)), data |-> latest]))
    IN  Spread(old, key,
               [id |-> key, name |-> name, history |-> history,
                lastSeen |-> t, status |-> "online"])

\* App.js lines 404-413: DeviceCard of the second variant reads h.data[key]
\* of every history entry (line 410), which throws on a null sample
RenderThrowsSecond(devs) ==
    \E i \in 1..Len(devs) :
        \E k \in 1..Len(devs[i].history) : devs[i].history[k].data.kind = "null"

\* App.js lines 351-360: the sweep updater of the second variant
SweepUpdaterSecond(old, t) ==
    [i \in 1..Len(old) |-> [old[i] EXCEPT !.status = SweepStatus(t, old[i].lastSeen)]]

\* App.js lines 319-345 and the render that follows: the second variant's
\* handler on its store st = [devices, mounted] at clock t.  The updater
\* takes a null sample, the render of its card throws and React unmounts the
\* tree before the new state is committed.
HandleSecond(st, message, t) ==
    IF ~st.mounted \/ ParseThrows(message) \/ DestructureThrows(message)
    THEN st
    ELSE LET next == EventUpdaterSecond(st.devices, message.id, message.name,
                                        Latest(message.fields), t)
         IN  IF RenderThrowsSecond(next)
             THEN [st EXCEPT !.mounted = FALSE]
             ELSE [st EXCEPT !.devices = next]

\* part_000 line 51: latest.timestamp of a null sample throws
UpdaterThrowsThird(latest) == latest.kind = "null"

\* part_000 lines 48-64: the event updater of the third variant
EventUpdaterThird(old, id, name, latest, t) ==
    LET key == ToPropertyKey(id)
        prevHistory == PrevHistory(old, key)
        entry == [time |-> NewDate(Times1000(latest.timestamp)), data |-> latest]
        history == SliceLast(Append(prevHistory, entry))
    IN  Spread(old, key,
               [id |-> key, name |-> name, history |-> history,
                lastSeen |-> t, status |-> "online"])

\* part_000 lines 73-83: the sweep updater of the third variant
SweepUpdaterThird(old, t) ==
    [i \in 1..Len(old) |-> [old[i] EXCEPT !.status = SweepStatus(t, old[i].lastSeen)]]

\* part_000 lines 35-66: the third variant's handler on its store st
HandleThird(st, message, t) ==
    IF ~st.mounted \/ ParseThrows(message) \/ DestructureThrows(message)
    THEN st
    ELSE LET latest == Latest(message.fields)
         IN  IF UpdaterThrowsThird(latest)
             THEN [st EXCEPT !.mounted = FALSE]
             ELSE [st EXCEPT !.devices = EventUpdaterThird(st.devices, message.id,
                                                          message.name, latest, t)]

-----------------------------------------------------------------------------
(* Ordering of the ids, App.js lines 89-97 *)

\* The characters of each identifier the model uses (a string is opaque to
\* TLC; split, join and localeCompare work on its characters).
Chars(id) ==
    CASE id = "AA:BB:CC:01" -> <<"A", "A", ":", "B", "B", ":", "C", "C", ":", "0", "1">>
      [] id = "AA:BB:CC:02" -> <<"A", "A", ":", "B", "B", ":", "C", "C", ":", "0", "2">>
      [] id = "AA:00:00:01" -> <<"A", "A", ":", "0", "0", ":", "0", "0", ":", "0", "1">>
      [] id = "AA:BB" -> <<"A", "A", ":", "B", "B">>
      [] id = "AA:BB:CC-:01" -> <<"A", "A", ":", "B", "B", ":", "C", "C", "-", ":", "0", "1">>
      [] id = "undefined" -> <<"u", "n", "d", "e", "f", "i", "n", "e", "d">>

\* The collation rank of a character under localeCompare: punctuation (the
\* hyphen before the colon) before digits before letters.
CharRank(c) ==
    CASE c = "-" -> 0
      [] c = ":" -> 1
      [] c = "0" -> 2
      [] c = "1" -> 3
      [] c = "2" -> 4
      [] c = "A" -> 5
      [] c = "B" -> 6
      [] c = "C" -> 7
      [] c = "d" -> 8
      [] c = "e" -> 9
      [] c = "f" -> 10
      [] c = "i" -> 11
      [] c = "n" -> 12
      [] c = "u" -> 13

\* x.localeCompare(y) on character sequences: negative, 0 or positive
RECURSIVE LocaleCompare(_, _)
LocaleCompare(x, y) ==
    IF x = <<>> /\ y = <<>> THEN 0
    ELSE IF x = <<>> THEN -1
    ELSE IF y = <<>> THEN 1
    ELSE IF CharRank(Head(x)) < CharRank(Head(y)) THEN -1
    ELSE IF CharRank(Head(x)) > CharRank(Head(y)) THEN 1
    ELSE LocaleCompare(Tail(x), Tail(y))

\* x.split(":"): the segments between the colons
RECURSIVE Split(_)
Split(x) ==
    IF \A i \in 1..Len(x) : x[i] # ":"
    THEN <<x>>
    ELSE LET k == CHOOSE i \in 1..Len(x) :
                      x[i] = ":" /\ \A j \in 1..(i - 1) : x[j] # ":"
         IN  <<SubSeq(x, 1, k - 1)>> \o Split(SubSeq(x, k + 1, Len(x)))

\* segs.slice(0, 3)
Slice3(segs) == SubSeq(segs, 1, IF Len(segs) < 3 THEN Len(segs) ELSE 3)

\* segs.join(":")
RECURSIVE Join(_)
Join(segs) ==
    IF segs = <<>> THEN <<>>
    ELSE IF Len(segs) = 1 THEN segs[1]
    ELSE segs[1] \o <<":">> \o Join(Tail(segs))

\* lines 93-94: the prefix group of an id
Group(id) == Join(Slice3(Split(Chars(id))))

\* the comparator without the tie-break inside a group
ComparatorGroupOnly(a, b) == LocaleCompare(Group(a), Group(b))

\* the comparator on the full id alone
ComparatorIdOnly(a, b) == LocaleCompare(Chars(a), Chars(b))

\* lines 92-96: the comparator handed to sort
Comparator(a, b) ==
    IF Group(a) = Group(b)
    THEN LocaleCompare(Chars(a), Chars(b))
    ELSE LocaleCompare(Group(a), Group(b))

\* Array.prototype.sort with the comparator: a stable sort, here by insertion
RECURSIVE InsertSorted(_, _)
InsertSorted(sorted, x) ==
    IF sorted = <<>> THEN <<x>>
    ELSE IF Comparator(Head(sorted), x) > 0 THEN <<x>> \o sorted
    ELSE <<Head(sorted)>> \o InsertSorted(Tail(sorted), x)

RECURSIVE Sort(_)
Sort(a) == IF a = <<>> THEN <<>> ELSE InsertSorted(Sort(SubSeq(a, 1, Len(a) - 1)), a[Len(a)])

\* line 89: Object.keys(devices)
Keys(devs) == [i \in 1..Len(devs) |-> devs[i].id]
ids == Keys(devices)

\* lines 91-97
sortedIds == Sort(ids)

-----------------------------------------------------------------------------
(* Summary counts, App.js lines 99-101 *)

total == Len(ids)
online == Cardinality({i \in 1..Len(devices) : devices[i].status = "online"})
offline == total - online

-----------------------------------------------------------------------------
(* The state machine *)

\* every key the devices object can get in the model
AllKeys ==
    {"AA:BB:CC:01", "AA:BB:CC:02", "AA:00:00:01", "AA:BB", "AA:BB:CC-:01", "undefined"}

NumApplied == LET RECURSIVE Sum(_)
                  Sum(S) == IF S = {} THEN 0
                            ELSE LET k == CHOOSE x \in S : TRUE
                                 IN  Len(applied[k]) + Sum(S \ {k})
              IN  Sum(AllKeys)

StatusOf(devs, key) ==
    IF IndexOf(devs, key) = 0 THEN "none" ELSE devs[IndexOf(devs, key)].status

Did(op, outcome, key, prevStatus) ==
    [op |-> op, outcome |-> outcome, key |-> key, prevStatus |-> prevStatus]

\* line 38: useState({}), and both effects have run
Init ==
    /\ devices = <<>>
    /\ now = 0
    /\ mounted = TRUE
    /\ last = Did("mount", "none", "", "none")
    /\ applied = [k \in AllKeys |-> <<>>]
    /\ queue = <<>>
    /\ variants = [second |-> [devices |-> <<>>, mounted |-> TRUE],
                   third |-> [devices |-> <<>>, mounted |-> TRUE]]

\* lines 42 and 68: the socket delivers mqtt_message events from io(...) to
\* socket.disconnect()
SocketConnected == mounted

\* clearInterval left out of the cleanup: the interval outlives the component
TimerLeaks == TRUE

\* lines 73 and 86: the interval fires from setInterval to clearInterval(timer)
TimerRunning == mounted

\* lines 43-67: one mqtt_message event, its updater included. A message that
\* makes the updater throw (a null sample) fails the render: React unmounts
\* the tree, which runs both cleanups.
Handler(message, maxEvents) ==
    /\ UNCHANGED <<now, queue>>
    /\ SocketConnected
    /\ NumApplied < maxEvents
    /\ IF ParseThrows(message)
       THEN /\ last' = Did("message", "dropped", "", "none")
            /\ UNCHANGED <<devices, mounted, applied>>
       ELSE IF DestructureThrows(message)
       THEN /\ last' = Did("message", "threw", "", "none")
            /\ UNCHANGED <<devices, mounted, applied>>
       ELSE LET latest == Latest(message.fields)
                key == ToPropertyKey(message.id)
            IN  IF UpdaterThrows(latest)
                THEN /\ last' = Did("message", "crashed", key, StatusOf(devices, key))
                     /\ mounted' = FALSE
                     /\ UNCHANGED <<devices, applied>>
                ELSE /\ devices' = EventUpdater(devices, message.id, message.name, latest, now)
                     /\ applied' = [applied EXCEPT ![key] = Append(@, latest)]
                     /\ last' = Did("message", "applied", key, StatusOf(devices, key))
                     /\ UNCHANGED mounted

\* the handler of the canonical App alone
HandleMessage(message, maxEvents) ==
    /\ Handler(message, maxEvents)
    /\ UNCHANGED variants

\* lines 73-85: one firing of the interval, its updater included
Sweep ==
    /\ TimerRunning
    /\ devices' = SweepUpdater(devices, now)
    /\ last' = Did("sweep", "none", "", "none")
    /\ UNCHANGED <<now, mounted, applied, queue, variants>>

\* lines 73-85: one firing of the interval at clock t, the time since the
\* previous callback having passed; it notes whether the previous callback
\* was a firing of the interval too
SweepAt(t) ==
    /\ TimerRunning
    /\ t >= now
    /\ now' = t
    /\ devices' = SweepUpdater(devices, t)
    /\ last' = Did("sweep", IF last.op = "sweep" THEN "repeated" ELSE "none", "", "none")
    /\ UNCHANGED <<mounted, applied, queue, variants>>

\* the wall clock advances to t between two callbacks of the mounted component
Tick(t) ==
    /\ mounted
    /\ t > now
    /\ now' = t
    /\ last' = Did("tick", "none", "", "none")
    /\ UNCHANGED <<devices, mounted, applied, queue, variants>>

\* lines 68 and 86: the cleanups, socket.disconnect() and clearInterval(timer)
Unmount ==
    /\ mounted
    /\ mounted' = FALSE
    /\ last' = Did("unmount", "none", "", "none")
    /\ UNCHANGED <<devices, now, applied, queue, variants>>

-----------------------------------------------------------------------------
(* Spec: every kind of message, two devices, the clock around the threshold *)

MainIds == {"AA:BB:CC:01", "AA:00:00:01"}

Malformed == {InvalidJson, JsonNull, NoPayload, NullPayload}

\* a payload object without id, or without name
MissingKeys ==
    {WithPayload(UndefinedS, Str("Tank1"), ArrayOf(<<R1>>)),
     WithPayload(Str("AA:BB:CC:01"), UndefinedS, ArrayOf(<<R1>>))}

\* payloads with id and name: fields absent, empty, one sample, two samples
\* (the last one older), a null sample
WellFormed ==
    UNION {{WithPayload(Str(i), Str("Tank1"), NoFields),
            WithPayload(Str(i), Str("Tank1"), ArrayOf(<<>>)),
            WithPayload(Str(i), Str("Tank1"), ArrayOf(<<R1>>)),
            WithPayload(Str(i), Str("Tank2"), ArrayOf(<<R1, R2>>)),
            WithPayload(Str(i), Str("Tank1"), ArrayOf(<<R1, NullElement>>))} : i \in MainIds}

Messages == Malformed \cup MissingKeys \cup WellFormed

\* clock values whose differences lie on both sides of the 30000 ms threshold
Instants == {0, 1000, 30000, 31000}

Next ==
    \/ \E m \in Messages : HandleMessage(m, MaxEvents)
    \/ Sweep
    \/ \E t \in Instants : Tick(t)
    \/ Unmount

Spec == Init /\ [][Next]_vars

-----------------------------------------------------------------------------
(* SpecLong: two devices that report more often than a history holds.  The *)
(* n-th sample of a device carries n as its ph value and a timestamp that  *)
(* decreases with n, so arrival order and timestamp order are opposite.    *)

LongIds == {"AA:BB:CC:01", "AA:BB:CC:02"}

LongSample(n) == Reading(Num(n), Undefined, Undefined, Undefined, Num(2000 - n))

LongMessage(i) ==
    WithPayload(Str(i), Str("Tank1"), ArrayOf(<<LongSample(Len(applied[i]) + 1)>>))

LongInstants == {0, 31000}

NextLong ==
    \/ \E i \in LongIds : HandleMessage(LongMessage(i), MaxLongEvents)
    \/ Sweep
    \/ \E t \in LongInstants : Tick(t)

SpecLong == Init /\ [][NextLong]_vars

-----------------------------------------------------------------------------
(* SpecOrder: the keys of the devices object in every insertion order *)

OrderMessages ==
    {WithPayload(Str(i), Str("Tank1"), ArrayOf(<<R1>>)) : i \in AllKeys \ {"undefined", "AA:BB"}}
        \cup {WithPayload(Str("AA:BB"), Str("Tank2"), ArrayOf(<<R4>>)),
              WithPayload(UndefinedS, Str("Tank1"), ArrayOf(<<R1>>))}

NextOrder == \E m \in OrderMessages : HandleMessage(m, MaxOrderEvents)

SpecOrder == Init /\ [][NextOrder]_vars

-----------------------------------------------------------------------------
(* SpecTimer: the interval fires exactly every 5000 ms after the mount, and *)
(* the clock moves on a grid of 2500 ms.                                    *)

TimerInstants == {k * 2500 : k \in 0..TimerSteps}

\* the interval is due at the current clock value and has not fired since the
\* last callback
SweepDue == now > 0 /\ now % SweepEvery = 0 /\ last.op # "sweep"

\* the next clock value at which the interval fires
NextDue == (now \div SweepEvery + 1) * SweepEvery

\* lines 73-85: the interval fires when it is due
TimerSweep == SweepDue /\ Sweep

\* the clock does not pass a firing of the interval
TimerTick(t) == ~SweepDue /\ t <= NextDue /\ Tick(t)

TimerMessages == {WithPayload(Str(i), Str("Tank1"), ArrayOf(<<R1>>)) : i \in MainIds}

NextTimer ==
    \/ \E m \in TimerMessages : HandleMessage(m, MaxTimerEvents)
    \/ TimerSweep
    \/ \E t \in TimerInstants : TimerTick(t)

SpecTimer == Init /\ [][NextTimer]_vars

-----------------------------------------------------------------------------
(* SpecSweep: firings of the interval at later and later clock values, with *)
(* events between them or without, and the teardown.                        *)

SweepMessages ==
    UNION {{WithPayload(Str(i), Str("Tank1"), ArrayOf(<<R1>>)),
            WithPayload(Str(i), Str("Tank2"), ArrayOf(<<R2>>))} : i \in MainIds}

SweepInstants == Instants \cup {61000}

NextSweep ==
    \/ \E m \in SweepMessages : HandleMessage(m, MaxSweepEvents)
    \/ \E t \in SweepInstants : SweepAt(t)
    \/ \E t \in SweepInstants : Tick(t)
    \/ Unmount

SpecSweep == Init /\ [][NextSweep]_vars

-----------------------------------------------------------------------------
(* SpecQueue: setDevices only queues the updater; the callbacks of several  *)
(* messages and of the interval can run before React renders, and the       *)
(* render runs the queued updaters in order.                                *)

\* lines 43-66 up to the call of setDevices, for a message whose updater
\* does not throw
Dispatch(m) ==
    /\ SocketConnected
    /\ NumApplied < MaxQueueEvents
    /\ Len(queue) < MaxQueue
    /\ LET latest == Latest(m.fields)
           key == ToPropertyKey(m.id)
       IN  /\ queue' = Append(queue, EventUpdate(m.id, m.name, latest, now))
           /\ applied' = [applied EXCEPT ![key] = Append(@, latest)]
           /\ last' = Did("dispatch", "queued", key, StatusOf(devices, key))
    /\ UNCHANGED <<devices, now, mounted, variants>>

\* lines 73-85 up to the call of setDevices
DispatchSweep ==
    /\ TimerRunning
    /\ Len(queue) < MaxQueue
    /\ queue' = Append(queue, SweepUpdate(now))
    /\ last' = Did("dispatch", "queued", "", "none")
    /\ UNCHANGED <<devices, now, mounted, applied, variants>>

\* React renders App: the queued updaters run in dispatch order, each on the
\* result of the one before.  The first of them may have run already when it
\* was dispatched into an empty queue (eager), reading the clock of that time.
Render(eager) ==
    /\ mounted
    /\ queue # <<>>
    /\ LET first == RunUpdater(devices, Head(queue),
                               IF eager THEN Head(queue).at ELSE now)
       IN  devices' = RunQueue(first, Tail(queue), now)
    /\ queue' = <<>>
    /\ last' = Did("render",
                   IF Len(queue) >= 3 /\ queue[2].kind = "sweep" THEN "interleaved"
                   ELSE IF Len(queue) >= 2 THEN "batch" ELSE "single",
                   "", "none")
    /\ UNCHANGED <<now, mounted, applied, variants>>

QueueMessages ==
    {WithPayload(Str("AA:BB:CC:01"), Str("Tank1"), ArrayOf(<<R1>>)),
     WithPayload(Str("AA:BB:CC:01"), Str("Tank2"), ArrayOf(<<R2>>)),
     WithPayload(Str("AA:00:00:01"), Str("Tank1"), ArrayOf(<<R1>>))}

NextQueue ==
    \/ \E m \in QueueMessages : Dispatch(m)
    \/ DispatchSweep
    \/ \E eager \in BOOLEAN : Render(eager)
    \/ \E t \in Instants : Tick(t)

SpecQueue == Init /\ [][NextQueue]_vars

-----------------------------------------------------------------------------
(* SpecVariants: the three variants of App run side by side on the same     *)
(* messages, clock values and firings of the interval.                      *)

\* one message, delivered to the three handlers at the same clock value
VariantsMessage(m) ==
    /\ Handler(m, MaxVariantEvents)
    /\ variants' = [second |-> HandleSecond(variants.second, m, now),
                    third |-> HandleThird(variants.third, m, now)]

\* one firing of the three intervals at clock t
VariantsSweep(t) ==
    /\ TimerRunning
    /\ t >= now
    /\ now' = t
    /\ devices' = SweepUpdater(devices, t)
    /\ variants' =
           [second |-> IF variants.second.mounted
                       THEN [variants.second EXCEPT
                                !.devices = SweepUpdaterSecond(@, t)]
                       ELSE variants.second,
            third |-> IF variants.third.mounted
                      THEN [variants.third EXCEPT
                               !.devices = SweepUpdaterThird(@, t)]
                      ELSE variants.third]
    /\ last' = Did("sweep", "none", "", "none")
    /\ UNCHANGED <<mounted, applied, queue>>

VariantMessages ==
    {InvalidJson, NoPayload,
     WithPayload(Str("AA:BB:CC:01"), Str("Tank1"), ArrayOf(<<R1>>)),
     WithPayload(Str("AA:BB:CC:01"), Str("Tank2"), ArrayOf(<<R1, R2>>)),
     WithPayload(Str("AA:00:00:01"), Str("Tank1"), NoFields),
     WithPayload(Str("AA:BB:CC:01"), Str("Tank1"), ArrayOf(<<R1, NullElement>>))}

NextVariants ==
    \/ \E m \in VariantMessages : VariantsMessage(m)
    \/ \E t \in Instants : VariantsSweep(t)
    \/ \E t \in Instants : Tick(t)

SpecVariants == Init /\ [][NextVariants]_vars

-----------------------------------------------------------------------------
(* Properties of the history (SpecLong) *)

\* C1: in every reachable state every tracked device's history has at least
\* 1 and at most 20 entries.
HistoryBounded ==
    \A i \in 1..Len(devices) :
        Len(devices[i].history) >= 1 /\ Len(devices[i].history) <= 20

\* a device whose history is full after more than 20 events, beside a device
\* with a single entry
HistoryBoundedWitness ==
    /\ \E i \in 1..Len(devices) :
           Len(devices[i].history) = 20 /\ Len(applied[devices[i].id]) > 20
    /\ \E i \in 1..Len(devices) : Len(devices[i].history) = 1

\* C2: after n applied events for a device its history holds exactly the
\* samples of the last min(n, 20) of them, in arrival order; after 25 events
\* it holds events 6 through 25.
HistoryIsLatestArrivals ==
    \A i \in 1..Len(devices) :
        LET h == devices[i].history
            a == applied[devices[i].id]
            n == Len(a)
        IN  /\ Len(h) = (IF n < 20 THEN n ELSE 20)
            /\ \A j \in 1..Len(h) : h[j].data = a[n - Len(h) + j]
            /\ n = 25 => \A j \in 1..20 : h[j].data = LongSample(j + 5)

\* a device after its 25th event
HistoryIsLatestArrivalsWitness ==
    \E i \in 1..Len(devices) : Len(applied[devices[i].id]) = 25

-----------------------------------------------------------------------------
(* Properties of liveness and of the counts (Spec) *)

\* C3: immediately after a sweep run at time now, a device is offline if
\* now - lastSeen > 30000 ms and online otherwise; exactly 30000 ms is online.
SweepClassifies ==
    last.op = "sweep" =>
        \A i \in 1..Len(devices) :
            LET elapsed == now - devices[i].lastSeen
            IN  /\ elapsed > 30000 => devices[i].status = "offline"
                /\ elapsed <= 30000 => devices[i].status = "online"

\* right after a sweep: one device silent for 31 s and offline, one silent for
\* exactly 30 s and online
SweepClassifiesWitness ==
    /\ last.op = "sweep"
    /\ \E i \in 1..Len(devices) :
           now - devices[i].lastSeen = 31000 /\ devices[i].status = "offline"
    /\ \E i \in 1..Len(devices) :
           now - devices[i].lastSeen = 30000 /\ devices[i].status = "online"

\* right after a sweep: a device silent for 29 s and online
SweepAt29sWitness ==
    /\ last.op = "sweep"
    /\ \E i \in 1..Len(devices) :
           now - devices[i].lastSeen = 29000 /\ devices[i].status = "online"

\* the messages with an id and a name whose sample is no null
Applicable == {m \in WellFormed : ~UpdaterThrows(Latest(m.fields))}

\* C4: an event applied for a device that is offline leaves it online in the
\* very next state; the online count goes up by one, the offline count down
\* by one, the total stays, and the history gets one more entry.
EventRevives ==
    [][\A m \in Applicable :
          LET key == ToPropertyKey(m.id)
          IN  (HandleMessage(m, MaxEvents) /\ StatusOf(devices, key) = "offline") =>
                  /\ StatusOf(devices', key) = "online"
                  /\ online' = online + 1
                  /\ offline' = offline - 1
                  /\ total' = total
                  /\ Len(PrevHistory(devices', key)) = Len(PrevHistory(devices, key)) + 1
      ]_vars

\* the scenario: one event, 31 s of silence and a sweep, a second event
EventRevivesWitness ==
    /\ last.op = "message" /\ last.outcome = "applied" /\ last.prevStatus = "offline"
    /\ total = 1 /\ online = 1 /\ offline = 0
    /\ Len(devices[1].history) = 2
    /\ devices[1].lastSeen = 31000

\* C5: every tracked device is online or offline, total is the number of
\* tracked ids, and online + offline = total with both counts the numbers of
\* devices of that status.
CountsAccount ==
    /\ \A i \in 1..Len(devices) : devices[i].status \in {"online", "offline"}
    /\ total = Cardinality({devices[i].id : i \in 1..Len(devices)})
    /\ online + offline = total
    /\ online >= 0 /\ offline >= 0
    /\ offline = Cardinality({i \in 1..Len(devices) : devices[i].status = "offline"})

\* after a sweep, one device online and one offline
CountsAccountWitness ==
    last.op = "sweep" /\ total = 2 /\ online = 1 /\ offline = 1

-----------------------------------------------------------------------------
(* Properties of the decoding (Spec) *)

\* C6: a message whose envelope is malformed (no JSON, no payload object, a
\* payload without id or without name) leaves the device store unchanged and
\* does not throw out of the handler.
MalformedIsDropped ==
    [][\A m \in Malformed \cup MissingKeys :
          HandleMessage(m, MaxEvents) =>
              devices' = devices /\ last'.outcome # "threw"
      ]_vars

\* the messages of the decoder-robustness list: no JSON, no payload, a payload
\* without fields, a payload with an empty fields array
NoSample ==
    {m \in WellFormed : ~m.fields.isArray \/ m.fields.items = <<>>}

\* C7 as stated: no JSON, no payload, no fields and empty fields all leave the
\* store snapshot as it was.
NoSampleLeavesStore ==
    [][\A m \in Malformed \cup NoSample :
          HandleMessage(m, MaxEvents) => devices' = devices
      ]_vars

\* C7, amended: a message that is no JSON or has no payload leaves the store
\* snapshot as it was (same ids, histories, lastSeen, status); a message whose
\* payload has an id and a name but no fields, or an empty fields array, is
\* applied and changes the snapshot.
UndecodableLeavesStore ==
    [][/\ \A m \in Malformed :
              HandleMessage(m, MaxEvents) => devices' = devices
       /\ \A m \in NoSample :
              HandleMessage(m, MaxEvents) =>
                  /\ devices' # devices
                  /\ IndexOf(devices', ToPropertyKey(m.id)) # 0
      ]_vars

\* a store with a device, right after a message without payload
UndecodableLeavesStoreWitness ==
    /\ last.op = "message" /\ last.outcome \in {"dropped", "threw"}
    /\ Len(devices) > 0

\* C8: a message with id and name whose fields is absent or empty is applied
\* with the empty reading as its sample (the device is tracked and online, its
\* history one entry longer, the new entry's four metrics absent); a message
\* with a non-empty fields array adds one entry, whose sample is the last
\* element.
LastSampleApplied ==
    [][\A m \in Applicable :
          LET key == ToPropertyKey(m.id)
              old == PrevHistory(devices, key)
              new == PrevHistory(devices', key)
          IN  HandleMessage(m, MaxEvents) =>
                  /\ StatusOf(devices', key) = "online"
                  /\ Len(new) = Len(old) + 1
                  /\ SubSeq(new, 1, Len(old)) = old
                  /\ IF m.fields.isArray /\ m.fields.items # <<>>
                     THEN new[Len(new)].data = m.fields.items[Len(m.fields.items)]
                     ELSE LET d == new[Len(new)].data
                          IN  /\ d.kind = "object"
                              /\ d.ph = Undefined /\ d.temp = Undefined
                              /\ d.cod = Undefined /\ d.ss = Undefined
      ]_vars

\* a device that got the empty reading from a message without samples and
\* then the last of two samples
LastSampleAppliedWitness ==
    /\ last.op = "message" /\ last.outcome = "applied"
    /\ \E i \in 1..Len(devices) :
           /\ Len(devices[i].history) = 2
           /\ devices[i].history[1].data = EmptyObject
           /\ devices[i].history[2].data = R2

-----------------------------------------------------------------------------
(* Properties of the ordering (SpecOrder) *)

\* x sorts before y, character by character
Before(x, y) == LocaleCompare(x, y) < 0

\* the sequences that hold each element of S once
RECURSIVE ArrangementsOf(_)
ArrangementsOf(S) ==
    IF S = {} THEN {<<>>}
    ELSE UNION {{<<x>> \o p : p \in ArrangementsOf(S \ {x})} : x \in S}

\* the sequences with the same elements as a, each once
Arrangements(a) == ArrangementsOf({a[i] : i \in 1..Len(a)})

\* C9: the ordered ids are the tracked ids, sorted by prefix group (the first
\* three colon-delimited segments) and within a group by the full identifier,
\* so the ids of a group are adjacent; AA:BB:CC:01, AA:BB:CC:02 and
\* AA:00:00:01 come out as AA:00:00:01, AA:BB:CC:01, AA:BB:CC:02.
SortedByGroupThenId ==
    /\ sortedIds \in Arrangements(ids)
    /\ \A i, j \in 1..Len(sortedIds) :
           i < j =>
               \/ Before(Group(sortedIds[i]), Group(sortedIds[j]))
               \/ /\ Group(sortedIds[i]) = Group(sortedIds[j])
                  /\ Before(Chars(sortedIds[i]), Chars(sortedIds[j]))
    /\ \A i, j, k \in 1..Len(sortedIds) :
           (i < k /\ k < j /\ Group(sortedIds[i]) = Group(sortedIds[j])) =>
               Group(sortedIds[k]) = Group(sortedIds[i])
    /\ {ids[i] : i \in 1..Len(ids)} = {"AA:BB:CC:01", "AA:BB:CC:02", "AA:00:00:01"} =>
           sortedIds = <<"AA:00:00:01", "AA:BB:CC:01", "AA:BB:CC:02">>

\* the three ids of the scenario, the second of the group arrived before the
\* first
SortedByGroupThenIdWitness ==
    ids = <<"AA:BB:CC:02", "AA:BB:CC:01", "AA:00:00:01">>

\* C10: the comparator reports no two distinct ids as equal and is
\* antisymmetric, and every insertion order of the same ids is ordered to the
\* same sequence.
OrderingDeterministic ==
    /\ \A i, j \in 1..Len(ids) :
           i # j =>
               /\ Comparator(ids[i], ids[j]) # 0
               /\ (Comparator(ids[i], ids[j]) < 0) = (Comparator(ids[j], ids[i]) > 0)
    /\ \A p \in Arrangements(ids) : Sort(p) = sortedIds

\* four ids, two of one group, not in their sorted order, and two whose
\* groups sort the other way than their full ids
OrderingDeterministicWitness ==
    /\ Len(ids) = 4
    /\ ids # sortedIds
    /\ \E i, j \in 1..Len(ids) : i # j /\ Group(ids[i]) = Group(ids[j])
    /\ \E i, j \in 1..Len(ids) :
           /\ Before(Group(ids[i]), Group(ids[j]))
           /\ Before(Chars(ids[j]), Chars(ids[i]))

-----------------------------------------------------------------------------
(* Properties of the engine's continuity (Spec) *)

\* C11: no message stops the engine: after a message of any kind (no JSON, no
\* payload, missing keys, a null sample) the component is still mounted, so
\* that later messages are applied and later sweeps run.
BadMessageNeverStops == last.op = "message" => mounted

-----------------------------------------------------------------------------
(* Properties of the detection latency (SpecTimer) *)

\* C12: with the sweep firing every 5 s, a device without events is offline
\* no later than 35 s after its last event (from the sweep at 35 s on), and
\* it is never offline while 30 s or less have elapsed.
StalenessBounded ==
    \A i \in 1..Len(devices) :
        LET elapsed == now - devices[i].lastSeen
        IN  /\ elapsed > 35000 => devices[i].status = "offline"
            /\ (elapsed = 35000 /\ ~SweepDue) => devices[i].status = "offline"
            /\ elapsed <= 30000 => devices[i].status = "online"

\* the latest detection: a device whose last event came with a firing of the
\* interval, marked offline by the sweep 35 s later
StalenessBoundedWitness ==
    /\ last.op = "sweep"
    /\ \E i \in 1..Len(devices) :
           /\ devices[i].lastSeen = 5000
           /\ now = 40000
           /\ devices[i].status = "offline"

-----------------------------------------------------------------------------
(* Properties of the sweep and of the teardown (SpecSweep) *)

\* C13 as stated: of two consecutive sweeps with no event between them, the
\* second leaves the store as the first left it.
SweepIdempotent ==
    [][\A t \in SweepInstants :
          (last.op = "sweep" /\ SweepAt(t)) => devices' = devices
      ]_vars

\* C13, amended: of two consecutive sweeps with no event between them, the
\* second leaves the store as the first left it when it reads the same clock
\* value; when it reads a later one it leaves ids, names, histories and
\* lastSeen as they were and changes a status only from online to offline.
SweepIdempotentAtOneClock ==
    [][\A t \in SweepInstants :
          (last.op = "sweep" /\ SweepAt(t)) =>
              /\ t = now => devices' = devices
              /\ Len(devices') = Len(devices)
              /\ \A i \in 1..Len(devices) :
                     /\ [devices'[i] EXCEPT !.status = devices[i].status] = devices[i]
                     /\ devices[i].status = "offline" => devices'[i].status = "offline"
      ]_vars

\* a second sweep in a row, 30 s after the first, that found a device offline
\* which the first had left online
SweepIdempotentAtOneClockWitness ==
    /\ last.op = "sweep" /\ last.outcome = "repeated"
    /\ now = 61000
    /\ \E i \in 1..Len(devices) :
           devices[i].lastSeen = 1000 /\ devices[i].status = "offline"

\* C14: a sweep changes nothing but status: the ids are the same, in the same
\* order, and every device's name, history and lastSeen are unchanged.
SweepFrame ==
    [][\A t \in SweepInstants :
          SweepAt(t) =>
              /\ Keys(devices') = Keys(devices)
              /\ \A i \in 1..Len(devices) :
                     /\ devices'[i].name = devices[i].name
                     /\ devices'[i].history = devices[i].history
                     /\ devices'[i].lastSeen = devices[i].lastSeen
      ]_vars

\* right after a sweep: a device with two history entries that the sweep
\* found offline
SweepFrameWitness ==
    /\ last.op = "sweep"
    /\ \E i \in 1..Len(devices) :
           Len(devices[i].history) = 2 /\ devices[i].status = "offline"

\* C17: no step removes a device, and a device that is offline stays offline
\* in every step that applies no event for it.
NeverRemoved ==
    [][/\ \A i \in 1..Len(devices) : IndexOf(devices', devices[i].id) # 0
       /\ \A i \in 1..Len(devices) :
              (devices[i].status = "offline"
                  /\ applied'[devices[i].id] = applied[devices[i].id]) =>
                  StatusOf(devices', devices[i].id) = "offline"
      ]_vars

\* two devices, one of them silent since the start and still offline after a
\* second sweep 30 s after the one that marked it
NeverRemovedWitness ==
    /\ last.op = "sweep" /\ last.outcome = "repeated"
    /\ now = 61000
    /\ Len(devices) = 2
    /\ \E i \in 1..Len(devices) :
           devices[i].lastSeen = 0 /\ devices[i].status = "offline"

\* C20: once the component is torn down no step changes the store, and the
\* teardown itself leaves the store as it was.
TeardownStops ==
    [][/\ ~mounted => devices' = devices
       /\ Unmount => devices' = devices
      ]_vars

\* torn down with two devices in the store, one of them offline
TeardownStopsWitness ==
    /\ ~mounted /\ last.op = "unmount"
    /\ Len(devices) = 2
    /\ \E i \in 1..Len(devices) : devices[i].status = "offline"

-----------------------------------------------------------------------------
(* Properties of one applied event *)

\* C15 as stated: when the sample of an applied event has no timestamp or a
\* non-numeric one, the time of the history entry it appends is the time the
\* event was received.
ReceiptTimeWithoutTimestamp ==
    (last.op = "message" /\ last.outcome = "applied") =>
        LET d == devices[IndexOf(devices, last.key)]
            e == d.history[Len(d.history)]
        IN  e.data.timestamp.kind # "number" =>
                e.time = [valid |-> TRUE, ms |-> d.lastSeen]

\* C16: every applied event for an id is an upsert: an unseen id is added
\* with a history of one entry, a known one gets one entry appended; either
\* way the device's name is then the event's name, its lastSeen the time of
\* the event and its status online.
UpsertOnApply ==
    [][\A m \in SweepMessages :
          LET key == ToPropertyKey(m.id)
              old == PrevHistory(devices, key)
              d == devices'[IndexOf(devices', key)]
          IN  HandleMessage(m, MaxSweepEvents) =>
                  /\ IndexOf(devices', key) # 0
                  /\ IF IndexOf(devices, key) = 0
                     THEN /\ Len(devices') = Len(devices) + 1
                          /\ Len(d.history) = 1
                     ELSE /\ Len(devices') = Len(devices)
                          /\ Len(d.history) = Len(old) + 1
                          /\ SubSeq(d.history, 1, Len(old)) = old
                  /\ d.history[Len(d.history)].data = Latest(m.fields)
                  /\ d.name = m.name
                  /\ d.lastSeen = now
                  /\ d.status = "online"
      ]_vars

\* an event applied at 31000 to a device known under another name and found
\* offline before
UpsertOnApplyWitness ==
    /\ last.op = "message" /\ last.outcome = "applied"
    /\ last.prevStatus = "offline"
    /\ \E i \in 1..Len(devices) :
           /\ devices[i].id = last.key
           /\ devices[i].name = Str("Tank2")
           /\ Len(devices[i].history) = 2
           /\ devices[i].history[1].data = R1
           /\ devices[i].lastSeen = 31000

-----------------------------------------------------------------------------
(* Liveness against the clock (Spec) *)

\* C19 as stated: in every state a device is offline exactly when more than
\* 30000 ms have passed since its last applied event.
LivenessIsElapsed ==
    \A i \in 1..Len(devices) :
        devices[i].status = "offline" <=> now - devices[i].lastSeen > OfflineAfter

\* C19, amended: in every state an offline device has more than 30000 ms
\* since its last applied event, and right after an event is applied its
\* device is online with nothing elapsed, set so by the handler's updater; a
\* device past the threshold stays online until the next sweep.
OfflineOnlyWhenStale ==
    /\ \A i \in 1..Len(devices) :
           devices[i].status = "offline" => now - devices[i].lastSeen > OfflineAfter
    /\ (last.op = "message" /\ last.outcome = "applied") =>
           \E i \in 1..Len(devices) :
               /\ devices[i].id = last.key
               /\ devices[i].status = "online"
               /\ devices[i].lastSeen = now

\* an event applied at 31000 while another device, past the threshold, is
\* still online, no sweep having run since the threshold passed
OfflineOnlyWhenStaleWitness ==
    /\ last.op = "message" /\ last.outcome = "applied"
    /\ now = 31000
    /\ \E i \in 1..Len(devices) :
           /\ devices[i].id # last.key
           /\ devices[i].status = "online"
           /\ now - devices[i].lastSeen > OfflineAfter

-----------------------------------------------------------------------------
(* Queued updaters (SpecQueue) *)

HistoryData(key) ==
    [i \in 1..Len(PrevHistory(devices, key)) |-> PrevHistory(devices, key)[i].data]

\* C18: the queued updaters run one after the other in dispatch order: the
\* store a render leaves holds, per device, the sample of every dispatched
\* event in dispatch order, whatever sweeps were dispatched between them;
\* while updaters wait, the rendered store holds the events of the renders so
\* far and nothing of the waiting ones, and the counts add up.
UpdatersSerialized ==
    /\ \A key \in AllKeys :
           /\ Len(HistoryData(key)) <= Len(applied[key])
           /\ HistoryData(key) = SubSeq(applied[key], 1, Len(HistoryData(key)))
    /\ queue = <<>> => \A key \in AllKeys : HistoryData(key) = applied[key]
    /\ total = online + offline
    /\ Len(sortedIds) = total

\* one render ran an event, a sweep and a second event of the same device,
\* and the device holds both samples
UpdatersSerializedWitness ==
    /\ last.op = "render" /\ last.outcome = "interleaved"
    /\ \E i \in 1..Len(devices) :
           /\ Len(devices[i].history) = 2
           /\ devices[i].history[1].data = R1
           /\ devices[i].history[2].data = R2

-----------------------------------------------------------------------------
(* Safety of the status and frame of an applied event (SpecSweep) *)

\* C21: in every state a device whose status is offline was last seen more
\* than 30000 ms ago: no device is offline within 30 s of its last event.
NeverOfflineWithin30s ==
    \A i \in 1..Len(devices) :
        now - devices[i].lastSeen <= OfflineAfter => devices[i].status # "offline"

\* right after a sweep at 31000: a device last seen at 0 is offline and one
\* last seen at 1000, exactly 30000 ms ago, is online
NeverOfflineWithin30sWitness ==
    /\ last.op = "sweep" /\ now = 31000
    /\ \E i, j \in 1..Len(devices) :
           /\ devices[i].lastSeen = 0 /\ devices[i].status = "offline"
           /\ devices[j].lastSeen = 1000 /\ devices[j].status = "online"

\* C22: applying an event for one device leaves every other device of the
\* store as it was: name, history, lastSeen and status, at the same place in
\* the order of the keys.
EventFrame ==
    [][\A m \in SweepMessages :
          HandleMessage(m, MaxSweepEvents) =>
              \A i \in 1..Len(devices) :
                  devices[i].id # ToPropertyKey(m.id) =>
                      /\ i <= Len(devices')
                      /\ devices'[i] = devices[i]
      ]_vars

\* an event applied for one device while the other one is offline
EventFrameWitness ==
    /\ last.op = "message" /\ last.outcome = "applied"
    /\ Len(devices) = 2
    /\ \E i \in 1..Len(devices) :
           devices[i].id # last.key /\ devices[i].status = "offline"

-----------------------------------------------------------------------------
(* The three variants side by side (SpecVariants) *)

\* the store without the time of the history entries
StripTime(devs) ==
    [i \in 1..Len(devs) |->
        [id |-> devs[i].id, name |-> devs[i].name,
         samples |-> [k \in 1..Len(devs[i].history) |-> devs[i].history[k].data],
         lastSeen |-> devs[i].lastSeen, status |-> devs[i].status]]

\* C23 as stated: after every step the three variants hold the same store,
\* the time of each history entry included.
VariantsAgree ==
    /\ variants.second = [devices |-> devices, mounted |-> mounted]
    /\ variants.third = [devices |-> devices, mounted |-> mounted]

\* C23, amended: after every step the third variant holds the same store as
\* the canonical one, entry times included, and the second variant the same
\* ids, names, samples, lastSeen and status, and is mounted when the
\* canonical one is; the time of a history entry is the time of the receipt
\* in the second variant and the sample's timestamp in the other two.
VariantsAgreeButTime ==
    /\ variants.third = [devices |-> devices, mounted |-> mounted]
    /\ variants.second.mounted = mounted
    /\ StripTime(variants.second.devices) = StripTime(devices)
    /\ \A i \in 1..Len(devices) :
           LET h1 == devices[i].history
               h2 == variants.second.devices[i].history
           IN  /\ \A k \in 1..Len(h1) :
                      /\ h1[k].time = NewDate(Times1000(h1[k].data.timestamp))
                      /\ h2[k].time.valid
                      /\ h2[k].time.ms <= devices[i].lastSeen
               /\ h2[Len(h2)].time.ms = devices[i].lastSeen

\* right after a sweep that found a device with two entries offline: the
\* second variant's entry is stamped 1000, the canonical one's 400000
VariantsAgreeButTimeWitness ==
    /\ last.op = "sweep"
    /\ \E i \in 1..Len(devices) :
           /\ devices[i].status = "offline"
           /\ Len(devices[i].history) = 2
           /\ devices[i].history[2].time = [valid |-> TRUE, ms |-> 400000]
           /\ variants.second.devices[i].history[2].time = [valid |-> TRUE, ms |-> 0]

=============================================================================
